---- MODULE Spec2Model ----
(***************************************************************************)
(* The Dual-APSI intersection engine of main.go: the scheme set-up, the    *)
(* Authorizer, and the six Interaction strategies (sequential, one task    *)
(* per element, channel job queue, atomic job queue, static division and   *)
(* precompute), with their goroutines, locks, wait groups and channels.    *)
(*                                                                         *)
(* The pairing group is a scaled-down group of prime order GroupOrder:     *)
(* a G1 element is its discrete logarithm to the base P, a GT element its  *)
(* discrete logarithm to the base e(P, P), so that MulZn, PowZn and Pair   *)
(* are multiplications modulo GroupOrder.                                  *)
(***************************************************************************)
EXTENDS Integers, Sequences, FiniteSets, Bags, TLC

\* ---------------------------------------------------------------- bounds
MaxLen == 3
MaxThreads == 4
MaxR == 2
MaxCalls == 3

\* ------------------------------------------------------------- constants
GroupOrder == 7
ClientParty == 0
ServerParty == 1

NoVal == 0 - 1
NoTask == 0 - 1

Elements == 1..(MaxLen + 1)
Phases == {"offline", "server", "client"}
Strategies == {"Interaction", "ThreadedInteraction", "SmarterThreadedInteraction",
               "AtomicsThreadedInteraction", "DivisionThreadedInteraction",
               "PrecomputeThreadedInteraction"}
PerElement == {"ThreadedInteraction", "PrecomputeThreadedInteraction"}
Pooled == {"SmarterThreadedInteraction", "AtomicsThreadedInteraction",
           "DivisionThreadedInteraction"}
MaxTasks == IF MaxLen > MaxThreads THEN MaxLen ELSE MaxThreads
TaskIds == 0..(MaxTasks - 1)
\* The indices a worker can come to hold: those of an array, and the values
\* the atomic counter takes past its end.
Indices == 0..(MaxLen + MaxThreads)

VARIABLES
    scheme,             \* DualAPSIScheme: P, x, y, xP, yP
    clientSet, clientSignatures, serverSet, serverSignatures,
    strategy,           \* the Interaction entry point that was called
    numThreads,         \* its numThreads argument
    mainpc,             \* position of the calling goroutine
    r, rxP, ryP,        \* blinding factor and blinded public points
    serverHashes,       \* map[[32]byte]bool, as the set of its keys
    intersection,       \* RawElementSlice being accumulated
    pairedSignatures,   \* precomputed e(sig, xP), in append order
    chan,               \* serverChan / clientChan: buffered, closed channels
    nextIndex,          \* serverNextIndex / clientNextIndex
    wg,                 \* pairedSignaturesWG / serverWG / clientWG counters
    lock,               \* pairedSignaturesLock / serverLock / clientLock holders
    task,               \* the goroutines of each pass
    seqIdx,             \* loop index of the sequential Interaction
    claimed,            \* history: how often each index of a pass was taken
    prev,               \* history: blinding factor and result of the call before
    signLog,            \* history: the Authorize calls made so far
    util                \* history: the last call of a set helper

vars == <<scheme, clientSet, clientSignatures, serverSet, serverSignatures,
          strategy, numThreads, mainpc, r, rxP, ryP, serverHashes, intersection,
          pairedSignatures, chan, nextIndex, wg, lock, task, seqIdx,
          claimed, prev, signLog, util>>

\* What outlives one Interaction call.
session == <<prev, signLog, util>>

\* The locals of one Interaction call.
locals == <<mainpc, r, rxP, ryP, serverHashes, intersection, pairedSignatures,
            chan, nextIndex, wg, lock, task, seqIdx, claimed>>

inputs == <<scheme, clientSet, clientSignatures, serverSet, serverSignatures,
            strategy, numThreads>>

\* ------------------------------------------------------------ primitives
Range(s) == {s[i] : i \in DOMAIN s}

\* The multiset of the elements of a sequence.
BagOfSeq(s) == [e \in Range(s) |-> Cardinality({i \in DOMAIN s : s[i] = e})]

\* pbc Element.MulZn on G1: scalar multiplication.
MulZn(pt, k) == (pt * k) % GroupOrder

\* The exponent multiplied in as a group element (Mul in place of PowZn).
PowZnAsMul(g, k) == (g + k) % GroupOrder

\* pbc Element.PowZn on GT: exponentiation.
PowZn(g, k) == (g * k) % GroupOrder

\* pbc Element.Pair: e(aP, bP) = e(P, P)^(ab).
Pair(a, b) == (a * b) % GroupOrder

\* sha256.Sum256(elt[:]) followed by SetFromHash: an injective hash-to-group
\* that never yields the identity (Elements has fewer than GroupOrder members).
SetFromHash(elt) == (3 * elt) % GroupOrder

\* A digest that keeps one bit of the GT element: distinct values collide.
FingerprintOneBit(g) == g % 2

\* sha256.Sum256(e.Bytes()): an injective digest of a GT element.
Fingerprint(g) == (5 * g + 3) % GroupOrder

\* Integer ceiling of a / b for b > 0.
CeilDiv(a, b) == (a + b - 1) \div b

\* start := int(math.Ceil(numPer * float64(threadNumber))), numPer = n / N.
DivisionStart(n, N, t) == CeilDiv(n * t, N)

\* The end truncated instead of rounded up: int(float64(start) + numPer).
DivisionEndTruncated(n, N, t) ==
    LET e == DivisionStart(n, N, t) + (n \div N)
    IN  IF e > n THEN n ELSE e

\* end := int(math.Ceil(float64(start) + numPer)); if end > n { end = n }.
DivisionEnd(n, N, t) ==
    LET e == DivisionStart(n, N, t) + CeilDiv(n, N)
    IN  IF e > n THEN n ELSE e

\* NewDualAPSIScheme: P is a generator, x and y are the two secret keys.
NewDualAPSIScheme(x, y) ==
    [P |-> 1, x |-> x, y |-> y, xP |-> MulZn(1, x), yP |-> MulZn(1, y)]

\* Authorize with the `switch party` dropped: every party signs under x.
AuthorizeClientKey(sch, elt, party) == MulZn(SetFromHash(elt), sch.x)

\* Authorize: the signature secretKey * H(elt) of the given party.
Authorize(sch, elt, party) ==
    LET secretKey == IF party = ClientParty THEN sch.x ELSE sch.y
    IN  MulZn(SetFromHash(elt), secretKey)

\* The signatures appended to the slice that make() has already given its
\* full length.
generateSignaturesAppended(sch, elements, party) ==
    [i \in 1..Len(elements) |-> NoVal]
        \o [i \in 1..Len(elements) |-> Authorize(sch, elements[i], party)]

\* generateSignaturesOnSet: signatures[i] = Authorize(elements[i], party).
generateSignaturesOnSet(sch, elements, party) ==
    [i \in 1..Len(elements) |-> Authorize(sch, elements[i], party)]

\* diff[e]++ on a map[RawElement]int: a missing key counts as 0.
Increment(diff, e) ==
    IF e \in DOMAIN diff THEN [diff EXCEPT ![e] = @ + 1] ELSE diff @@ (e :> 1)

\* diff[e] -= 1 with the key left in the map at zero.
DecrementKept(diff, e) == [diff EXCEPT ![e] = @ - 1]

\* diff[e] -= 1; if diff[e] == 0 { delete(diff, e) }.
Decrement(diff, e) ==
    IF diff[e] - 1 = 0
    THEN [k \in DOMAIN diff \ {e} |-> diff[k]]
    ELSE [diff EXCEPT ![e] = @ - 1]

\* for _, _x := range x { diff[_x]++ }, from position i on.
RECURSIVE CountLoop(_, _, _)
CountLoop(diff, x, i) ==
    IF i > Len(x) THEN diff ELSE CountLoop(Increment(diff, x[i]), x, i + 1)

\* The loop over y, from position i on, and the final len(diff) == 0.
RECURSIVE DrainLoop(_, _, _)
DrainLoop(diff, y, i) ==
    IF i > Len(y) THEN Cardinality(DOMAIN diff) = 0
    ELSE IF y[i] \notin DOMAIN diff THEN FALSE
    ELSE DrainLoop(Decrement(diff, y[i]), y, i + 1)

\* sameRawElementSlice(x, y).
sameRawElementSlice(x, y) ==
    IF Len(x) # Len(y) THEN FALSE
    ELSE DrainLoop(CountLoop([k \in {} |-> 0], x, 1), y, 1)

\* The key not recorded as seen.
MarkKeyForgotten(keys, entry) == keys

\* keys[entry] = true.
MarkKey(keys, entry) == keys \cup {entry}

\* The loop of removeDuplicateValues from position i on: keys is the set of
\* keys of the map, list the slice being built.
RECURSIVE DedupLoop(_, _, _, _)
DedupLoop(keys, list, elementSlice, i) ==
    IF i > Len(elementSlice) THEN list
    ELSE LET entry == elementSlice[i]
         IN  IF entry \notin keys
             THEN DedupLoop(MarkKey(keys, entry), Append(list, entry),
                            elementSlice, i + 1)
             ELSE DedupLoop(keys, list, elementSlice, i + 1)

\* removeDuplicateValues(elementSlice).
removeDuplicateValues(elementSlice) == DedupLoop({}, <<>>, elementSlice, 1)

\* generateRandomSet(size): random holds what rand.Read puts into the size
\* entries of result.
generateRandomSet(size, random) ==
    LET result == [i \in 1..size |-> random[i]]
    IN  removeDuplicateValues(result)

\* findInsecureIntersection: the server elements that the client also holds.
findInsecureIntersection(cs, ss) ==
    SelectSeq(ss, LAMBDA e : e \in Range(cs))

\* A set stored as the run of consecutive elements lo, lo+1, ..., lo+n-1.
IntervalSeq(lo, n) == [i \in 1..n |-> lo + i - 1]

Signatures(ph) == IF ph = "client" THEN clientSignatures ELSE serverSignatures

IdleTask == [pc |-> "idle", sig |-> NoVal, index |-> NoVal, i |-> NoVal,
             end |-> NoVal, e_sig |-> NoVal, hashed |-> NoVal]


\* make(chan *pbc.Element, n): an open, empty channel.
NewChan == [buf |-> <<>>, closed |-> FALSE]

\* The channel loaded but left open.
LoadedChanOpen(signatures) == [buf |-> signatures, closed |-> FALSE]

\* for _, v := range signatures { ch <- v }; close(ch).
LoadedChan(signatures) == [buf |-> signatures, closed |-> TRUE]

\* ------------------------------------------------------------------ Init
\* Both sets are deduplicated (generateRandomSet ends in removeDuplicateValues)
\* and are signed index by index by generateSignaturesOnSet.
SetsInit ==
    /\ scheme = NewDualAPSIScheme(2, 3)
    /\ \E cn \in 0..MaxLen : clientSet = IntervalSeq(1, cn)
    /\ \E lo \in Elements, sn \in 0..MaxLen :
          /\ lo + sn - 1 <= MaxLen + 1
          /\ sn = 0 => lo = 1
          /\ serverSet = IntervalSeq(lo, sn)

CallInit ==
    /\ strategy \in Strategies
    /\ numThreads \in IF strategy \in Pooled THEN 0..MaxThreads ELSE {0}

\* The locals of an Interaction call at its entry.
RunInit ==
    /\ mainpc = "entry"
    /\ r = NoVal
    /\ rxP = NoVal
    /\ ryP = NoVal
    /\ serverHashes = {}
    /\ intersection = <<>>
    /\ pairedSignatures = <<>>
    /\ chan = [ph \in Phases |-> NewChan]
    /\ nextIndex = [ph \in Phases |-> 0]
    /\ wg = [ph \in Phases |-> 0]
    /\ lock = [ph \in Phases |-> NoTask]
    /\ task = [ph \in Phases |-> [t \in TaskIds |-> IdleTask]]
    /\ seqIdx = 0
    /\ claimed = [ph \in Phases |-> [k \in Indices |-> 0]]

\* No set helper has been called: x and y are the slices at hand.
NoCall == [fn |-> "none", x |-> <<>>, y |-> <<>>, party |-> NoVal, ret |-> NoVal]

\* No call has returned yet.
NoRun == [r |-> NoVal, result |-> <<>>]

\* A session in which no Interaction call has returned and nothing was signed
\* through the log.
SessionInit ==
    /\ prev = NoRun
    /\ signLog = <<>>
    /\ util = NoCall

Init ==
    /\ SetsInit
    /\ clientSignatures = generateSignaturesOnSet(scheme, clientSet, ClientParty)
    /\ serverSignatures = generateSignaturesOnSet(scheme, serverSet, ServerParty)
    /\ CallInit
    /\ RunInit
    /\ SessionInit

\* ------------------------------------------------- the calling goroutine
\* A wait group whose Wait() does not block.
WaitSkipped(ph) == TRUE

\* pairedSignaturesWG.Wait() / serverWG.Wait() / clientWG.Wait() returns once
\* the counter is zero.
WaitReturns(ph) == wg[ph] = 0

\* Goroutines that read the loop variable when they run instead of taking
\* it as an argument: every task sees the last signature and the last index.
SpawnPerElementCaptured(signatures, withIndex) ==
    [t \in TaskIds |->
        IF t < Len(signatures)
        THEN [IdleTask EXCEPT !.pc = "run",
                              !.sig = signatures[Len(signatures)],
                              !.index = IF withIndex
                                        THEN Len(signatures) - 1 ELSE NoVal]
        ELSE IdleTask]

\* `go func(signature) {...}(s)` for every s of signatures: task t holds
\* signatures[t] (and, in the client pass, its index t).
SpawnPerElement(signatures, withIndex) ==
    [t \in TaskIds |->
        IF t < Len(signatures)
        THEN [IdleTask EXCEPT !.pc = "run", !.sig = signatures[t + 1],
                              !.index = IF withIndex THEN t ELSE NoVal]
        ELSE IdleTask]

\* The pool loop with <= in place of <: one worker more than numThreads
\* (the extra worker of the static division is given the whole array).
SpawnPoolOneMore(n) ==
    [t \in TaskIds |->
        IF t <= numThreads
        THEN IF strategy = "DivisionThreadedInteraction"
             THEN [IdleTask EXCEPT !.pc = "run", !.i = 0, !.end = n]
             ELSE [IdleTask EXCEPT !.pc = "run"]
        ELSE IdleTask]

\* `for i := 0; i < numThreads; i++ { go func() {...}() }`; the static
\* division computes start and end when the goroutine begins.
SpawnPool(n) ==
    [t \in TaskIds |->
        IF t < numThreads
        THEN IF strategy = "DivisionThreadedInteraction"
             THEN [IdleTask EXCEPT !.pc = "run",
                                   !.i = DivisionStart(n, numThreads, t),
                                   !.end = DivisionEnd(n, numThreads, t)]
             ELSE [IdleTask EXCEPT !.pc = "run"]
        ELSE IdleTask]

\* PrecomputeThreadedInteraction, precomputation phase: one goroutine per
\* server signature.
SpawnOffline ==
    /\ mainpc = "entry"
    /\ strategy = "PrecomputeThreadedInteraction"
    /\ wg' = [wg EXCEPT !["offline"] = Len(serverSignatures)]
    /\ task' = [task EXCEPT !["offline"] = SpawnPerElement(serverSignatures, FALSE)]
    /\ mainpc' = "offlineWait"
    /\ UNCHANGED <<inputs, session, claimed, r, rxP, ryP, serverHashes,
                   intersection, pairedSignatures, chan, nextIndex, lock,
                   seqIdx>>

\* r.Rand() alone: the two MulZn calls are left out.
SampleBlindingUnderived ==
    /\ IF strategy = "PrecomputeThreadedInteraction"
       THEN mainpc = "offlineWait" /\ WaitReturns("offline")
       ELSE mainpc = "entry"
    /\ \E rr \in 0..MaxR : r' = rr
    /\ mainpc' = "blinded"
    /\ UNCHANGED <<inputs, session, claimed, rxP, ryP, serverHashes,
                   intersection, pairedSignatures, chan, nextIndex, wg, lock,
                   task, seqIdx>>

\* r.Rand(); rxP.MulZn(scheme.xP, r); ryP.MulZn(scheme.yP, r).  The precompute
\* variant samples r after pairedSignaturesWG.Wait() and derives only ryP.
SampleBlinding ==
    /\ IF strategy = "PrecomputeThreadedInteraction"
       THEN mainpc = "offlineWait" /\ WaitReturns("offline")
       ELSE mainpc = "entry"
    /\ \E rr \in 0..MaxR :
          /\ r' = rr
          /\ rxP' = IF strategy = "PrecomputeThreadedInteraction"
                    THEN NoVal ELSE MulZn(scheme.xP, rr)
          /\ ryP' = MulZn(scheme.yP, rr)
    /\ mainpc' = "blinded"
    /\ UNCHANGED <<inputs, session, claimed, serverHashes, intersection,
                   pairedSignatures, chan, nextIndex, wg, lock, task, seqIdx>>

\* The start of the server pass: the sequential loop, or the channel / counter /
\* wait group set-up followed by the `go` statements.
StartServerPass ==
    /\ mainpc = "blinded"
    /\ IF strategy = "Interaction"
       THEN /\ mainpc' = "seqServer"
            /\ seqIdx' = 0
            /\ UNCHANGED <<chan, nextIndex, wg, task>>
       ELSE /\ mainpc' = "serverWait"
            /\ chan' = IF strategy = "SmarterThreadedInteraction"
                       THEN [chan EXCEPT !["server"] = LoadedChan(serverSignatures)]
                       ELSE chan
            /\ nextIndex' = [nextIndex EXCEPT !["server"] = 0]
            /\ wg' = [wg EXCEPT !["server"] =
                        CASE strategy = "ThreadedInteraction" -> Len(serverSignatures)
                          [] strategy = "PrecomputeThreadedInteraction" -> Len(pairedSignatures)
                          [] OTHER -> numThreads]
            /\ task' = [task EXCEPT !["server"] =
                        CASE strategy = "ThreadedInteraction" ->
                                SpawnPerElement(serverSignatures, FALSE)
                          [] strategy = "PrecomputeThreadedInteraction" ->
                                SpawnPerElement(pairedSignatures, FALSE)
                          [] OTHER -> SpawnPool(Len(serverSignatures))]
            /\ UNCHANGED seqIdx
    /\ UNCHANGED <<inputs, session, claimed, r, rxP, ryP, serverHashes,
                   intersection, pairedSignatures, lock>>

\* The sequential server loop: one iteration.
SeqServerStep ==
    /\ mainpc = "seqServer"
    /\ seqIdx < Len(serverSignatures)
    /\ LET e_sig_rxP == Pair(serverSignatures[seqIdx + 1], rxP)
           hashed == Fingerprint(e_sig_rxP)
       IN  serverHashes' = serverHashes \cup {hashed}
    /\ seqIdx' = seqIdx + 1
    /\ UNCHANGED <<inputs, session, claimed, mainpc, r, rxP, ryP, intersection,
                   pairedSignatures, chan, nextIndex, wg, lock, task>>

\* serverWG.Wait() returns (or the sequential server loop ends); the client
\* pass is set up and its goroutines are started.
StartClientPass ==
    /\ IF strategy = "Interaction"
       THEN /\ mainpc = "seqServer"
            /\ seqIdx = Len(serverSignatures)
            /\ mainpc' = "seqClient"
            /\ seqIdx' = 0
            /\ UNCHANGED <<chan, nextIndex, wg, task>>
       ELSE /\ mainpc = "serverWait"
            /\ WaitReturns("server")
            /\ mainpc' = "clientWait"
            /\ chan' = IF strategy = "SmarterThreadedInteraction"
                       THEN [chan EXCEPT !["client"] = LoadedChan(clientSignatures)]
                       ELSE chan
            /\ nextIndex' = [nextIndex EXCEPT !["client"] = 0]
            /\ wg' = [wg EXCEPT !["client"] =
                        IF strategy \in PerElement
                        THEN Len(clientSignatures) ELSE numThreads]
            /\ task' = [task EXCEPT !["client"] =
                        IF strategy \in PerElement
                        THEN SpawnPerElement(clientSignatures, TRUE)
                        ELSE SpawnPool(Len(clientSignatures))]
            /\ UNCHANGED seqIdx
    /\ UNCHANGED <<inputs, session, claimed, r, rxP, ryP, serverHashes,
                   intersection, pairedSignatures, lock>>

\* The sequential client loop with a hit put at the front of the result.
SeqClientStepPrepend ==
    /\ mainpc = "seqClient"
    /\ seqIdx < Len(clientSignatures)
    /\ LET e_sig_ryP == Pair(clientSignatures[seqIdx + 1], ryP)
           hashed == Fingerprint(e_sig_ryP)
           serverHas == hashed \in serverHashes
       IN  IF ~serverHas
           THEN UNCHANGED <<intersection, mainpc>>
           ELSE IF seqIdx + 1 \in DOMAIN clientSet
                THEN /\ intersection' = <<clientSet[seqIdx + 1]>> \o intersection
                     /\ UNCHANGED mainpc
                ELSE /\ mainpc' = "panic"
                     /\ UNCHANGED intersection
    /\ seqIdx' = seqIdx + 1
    /\ UNCHANGED <<inputs, session, claimed, r, rxP, ryP, serverHashes,
                   pairedSignatures, chan, nextIndex, wg, lock, task>>

\* The sequential client loop: one iteration.  An index outside clientSet
\* is a run-time panic.
SeqClientStep ==
    /\ mainpc = "seqClient"
    /\ seqIdx < Len(clientSignatures)
    /\ LET e_sig_ryP == Pair(clientSignatures[seqIdx + 1], ryP)
           hashed == Fingerprint(e_sig_ryP)
           serverHas == hashed \in serverHashes
       IN  IF ~serverHas
           THEN UNCHANGED <<intersection, mainpc>>
           ELSE IF seqIdx + 1 \in DOMAIN clientSet
                THEN /\ intersection' = Append(intersection, clientSet[seqIdx + 1])
                     /\ UNCHANGED mainpc
                ELSE /\ mainpc' = "panic"
                     /\ UNCHANGED intersection
    /\ seqIdx' = seqIdx + 1
    /\ UNCHANGED <<inputs, session, claimed, r, rxP, ryP, serverHashes,
                   pairedSignatures, chan, nextIndex, wg, lock, task>>

\* A return that does not wait for the client wait group.
ReturnWithoutWait ==
    /\ IF strategy = "Interaction"
       THEN mainpc = "seqClient" /\ seqIdx = Len(clientSignatures)
       ELSE mainpc = "clientWait"
    /\ mainpc' = "returned"
    /\ UNCHANGED <<inputs, session, claimed, r, rxP, ryP, serverHashes,
                   intersection, pairedSignatures, chan, nextIndex, wg, lock,
                   task, seqIdx>>

\* clientWG.Wait() returns (or the sequential client loop ends) and the call
\* returns intersection.
Return ==
    /\ IF strategy = "Interaction"
       THEN mainpc = "seqClient" /\ seqIdx = Len(clientSignatures)
       ELSE mainpc = "clientWait" /\ WaitReturns("client")
    /\ mainpc' = "returned"
    /\ UNCHANGED <<inputs, session, claimed, r, rxP, ryP, serverHashes,
                   intersection, pairedSignatures, chan, nextIndex, wg, lock,
                   task, seqIdx>>


\* ------------------------------------------------------- worker goroutines
\* A run-time panic (an index out of range) ends the process: no goroutine
\* takes another step.
Running == mainpc # "panic"

\* A client pass that pairs with yP itself instead of with ryP.
DeriveClientUnblinded(ph, sig) ==
    CASE ph = "offline" -> Pair(sig, scheme.xP)
      [] ph = "server" -> IF strategy = "PrecomputeThreadedInteraction"
                          THEN PowZn(sig, r)
                          ELSE Pair(sig, rxP)
      [] OTHER -> Pair(sig, scheme.yP)

\* The GT value a worker derives from the signature it holds: the offline
\* pairing with xP, the server pairing with rxP (in the precompute variant the
\* exponentiation of the paired signature by r), the client pairing with ryP.
Derive(ph, sig) ==
    CASE ph = "offline" -> Pair(sig, scheme.xP)
      [] ph = "server" -> IF strategy = "PrecomputeThreadedInteraction"
                          THEN PowZn(sig, r)
                          ELSE Pair(sig, rxP)
      [] OTHER -> Pair(sig, ryP)

\* The end of a loop iteration (or of a one-shot goroutine body): the
\* iteration's locals go out of scope, and the scratch element is dead until
\* the next Pair / PowZn overwrites it.
EndIteration(rec, pc) ==
    [rec EXCEPT !.pc = pc, !.sig = NoVal, !.index = NoVal, !.hashed = NoVal,
                !.e_sig = NoVal]

\* Where a pooled worker goes after an iteration, and a one-shot task after
\* its body.
NextPc == IF strategy \in PerElement THEN "exit" ELSE "run"

\* One scratch element per pass, created by the caller and shared by the
\* workers: the digest is taken from what the scratch holds, which is what
\* another worker wrote if one is between its Pair and its write.
ComputeSharedScratch(ph, rec) ==
    LET others == {task[ph][u].e_sig : u \in TaskIds} \ {NoVal}
        e == IF others = {} THEN Derive(ph, rec.sig) ELSE CHOOSE v \in others : TRUE
        hashed == Fingerprint(e)
    IN  CASE ph = "offline" -> [rec EXCEPT !.pc = "want", !.e_sig = e]
          [] ph = "server" -> [rec EXCEPT !.pc = "want", !.e_sig = e, !.hashed = hashed]
          [] OTHER -> IF hashed \in serverHashes
                      THEN [rec EXCEPT !.pc = "want", !.e_sig = e, !.hashed = hashed]
                      ELSE EndIteration([rec EXCEPT !.e_sig = e], NextPc)

\* Pair / PowZn into the scratch element, hash it and, in the client pass,
\* look the digest up in serverHashes (read without a lock).
Compute(ph, rec) ==
    LET e == Derive(ph, rec.sig)
        hashed == Fingerprint(e)
    IN  CASE ph = "offline" -> [rec EXCEPT !.pc = "want", !.e_sig = e]
          [] ph = "server" -> [rec EXCEPT !.pc = "want", !.e_sig = e, !.hashed = hashed]
          [] OTHER -> IF hashed \in serverHashes
                      THEN [rec EXCEPT !.pc = "want", !.e_sig = e, !.hashed = hashed]
                      ELSE EndIteration([rec EXCEPT !.e_sig = e], NextPc)

\* History: a worker of pass ph has taken index k of the pass's array (its
\* goroutine argument, the head of the channel, a value of the counter, or a
\* value of its loop variable).
Took(ph, k) == claimed' = [claimed EXCEPT ![ph][k] = @ + 1]

\* ThreadedInteraction / PrecomputeThreadedInteraction: the body of the
\* goroutine started for one signature, up to the Lock call.
ClaimOwn(ph, t) ==
    /\ Running
    /\ strategy \in PerElement
    /\ task[ph][t].pc = "run"
    /\ task' = [task EXCEPT ![ph][t] = Compute(ph, task[ph][t])]
    /\ Took(ph, t)
    /\ UNCHANGED <<inputs, session, mainpc, r, rxP, ryP, serverHashes,
                   intersection, pairedSignatures, chan, nextIndex, wg, lock,
                   seqIdx>>

\* SmarterThreadedInteraction: `for signature := range ch`.  A receive takes
\* the head of the buffer; on a closed, drained channel the loop ends; on an
\* open, empty channel the receive blocks.
ClaimChan(ph, t) ==
    /\ Running
    /\ strategy = "SmarterThreadedInteraction"
    /\ task[ph][t].pc = "run"
    /\ IF chan[ph].buf # <<>>
       THEN /\ chan' = [chan EXCEPT ![ph].buf = Tail(chan[ph].buf)]
            /\ task' = [task EXCEPT ![ph][t] =
                          Compute(ph, [task[ph][t] EXCEPT !.sig = Head(chan[ph].buf)])]
            /\ Took(ph, Len(Signatures(ph)) - Len(chan[ph].buf))
       ELSE /\ chan[ph].closed
            /\ task' = [task EXCEPT ![ph][t].pc = "exit"]
            /\ UNCHANGED <<chan, claimed>>
    /\ UNCHANGED <<inputs, session, mainpc, r, rxP, ryP, serverHashes,
                   intersection, pairedSignatures, nextIndex, wg, lock, seqIdx>>

\* An add that counts delta twice.
AddUint64Twice(v, delta) == v + delta + delta

\* atomic.AddUint64(&counter, delta): the new value of the counter.
AddUint64(v, delta) == v + delta

\* The stop test with > in place of >=.
AtomicStopLate(index, stopIndex) == index > stopIndex

\* `if index >= stopIndex { break }`.
AtomicStop(index, stopIndex) == index >= stopIndex

\* AtomicsThreadedInteraction: index := atomic.AddUint64(&nextIndex, 1) - 1;
\* if index >= stopIndex { break }; then signatures[index] is read.
ClaimAtomic(ph, t) ==
    /\ Running
    /\ strategy = "AtomicsThreadedInteraction"
    /\ task[ph][t].pc = "run"
    /\ LET index == AddUint64(nextIndex[ph], 1) - 1
           stopIndex == Len(Signatures(ph))
       IN  /\ nextIndex' = [nextIndex EXCEPT ![ph] = AddUint64(nextIndex[ph], 1)]
           /\ Took(ph, index)
           /\ IF AtomicStop(index, stopIndex)
              THEN /\ task' = [task EXCEPT ![ph][t].pc = "exit"]
                   /\ UNCHANGED mainpc
              ELSE IF index + 1 \in DOMAIN Signatures(ph)
                   THEN /\ task' = [task EXCEPT ![ph][t] =
                                 Compute(ph, [task[ph][t] EXCEPT
                                                !.sig = Signatures(ph)[index + 1],
                                                !.index = index])]
                        /\ UNCHANGED mainpc
                   ELSE /\ mainpc' = "panic"
                        /\ UNCHANGED task
    /\ UNCHANGED <<inputs, session, r, rxP, ryP, serverHashes,
                   intersection, pairedSignatures, chan, wg, lock, seqIdx>>

\* DivisionThreadedInteraction: `for i := start; i < end; i++`, reading
\* signatures[i].
ClaimDivision(ph, t) ==
    /\ Running
    /\ strategy = "DivisionThreadedInteraction"
    /\ task[ph][t].pc = "run"
    /\ LET rec == task[ph][t]
       IN  IF rec.i >= rec.end
           THEN /\ task' = [task EXCEPT ![ph][t].pc = "exit"]
                /\ UNCHANGED <<mainpc, claimed>>
           ELSE IF rec.i + 1 \in DOMAIN Signatures(ph)
                THEN /\ task' = [task EXCEPT ![ph][t] =
                              Compute(ph, [rec EXCEPT !.sig = Signatures(ph)[rec.i + 1],
                                                      !.index = rec.i,
                                                      !.i = rec.i + 1])]
                     /\ Took(ph, rec.i)
                     /\ UNCHANGED mainpc
                ELSE /\ mainpc' = "panic"
                     /\ UNCHANGED <<task, claimed>>
    /\ UNCHANGED <<inputs, session, r, rxP, ryP, serverHashes,
                   intersection, pairedSignatures, chan, nextIndex, wg, lock,
                   seqIdx>>

\* Lock() that succeeds whoever holds the lock.
LockUnguarded(ph, t) ==
    /\ Running
    /\ task[ph][t].pc = "want"
    /\ lock' = [lock EXCEPT ![ph] = t]
    /\ task' = [task EXCEPT ![ph][t].pc = "cs"]
    /\ UNCHANGED <<inputs, session, claimed, mainpc, r, rxP, ryP, serverHashes,
                   intersection, pairedSignatures, chan, nextIndex, wg, seqIdx>>

\* pairedSignaturesLock.Lock() / serverLock.Lock() / clientLock.Lock().
Lock(ph, t) ==
    /\ Running
    /\ task[ph][t].pc = "want"
    /\ lock[ph] = NoTask
    /\ lock' = [lock EXCEPT ![ph] = t]
    /\ task' = [task EXCEPT ![ph][t].pc = "cs"]
    /\ UNCHANGED <<inputs, session, claimed, mainpc, r, rxP, ryP, serverHashes,
                   intersection, pairedSignatures, chan, nextIndex, wg, seqIdx>>

\* The index of clientSet that a client worker appends on a hit: its own
\* index, except in the channel and atomic job queues, which append clientSet[0].
AppendIndex(rec) ==
    IF strategy \in {"SmarterThreadedInteraction", "AtomicsThreadedInteraction"}
    THEN 0
    ELSE rec.index

\* A client worker that deletes the digest it matched.
UpdatedHashesConsume(ph, rec) ==
    CASE ph = "server" -> serverHashes \cup {rec.hashed}
      [] ph = "client" -> serverHashes \ {rec.hashed}
      [] OTHER -> serverHashes

\* serverHashes after the write a worker of pass ph makes under its lock:
\* `serverHashes[hashed] = true` in the server pass, untouched otherwise.
UpdatedHashes(ph, rec) ==
    IF ph = "server" THEN serverHashes \cup {rec.hashed} ELSE serverHashes

\* The write made under the lock, followed by Unlock(): the append to
\* pairedSignatures, the insertion into serverHashes, or the append to
\* intersection (a panic when the index is outside clientSet).
WriteUnlock(ph, t) ==
    /\ Running
    /\ task[ph][t].pc = "cs"
    /\ LET rec == task[ph][t]
           ok == ph = "client" => AppendIndex(rec) + 1 \in DOMAIN clientSet
       IN  /\ pairedSignatures' = IF ph = "offline"
                                  THEN Append(pairedSignatures, rec.e_sig)
                                  ELSE pairedSignatures
           /\ serverHashes' = UpdatedHashes(ph, rec)
           /\ intersection' = IF ph = "client" /\ ok
                              THEN Append(intersection, clientSet[AppendIndex(rec) + 1])
                              ELSE intersection
           /\ IF ok
              THEN /\ lock' = [lock EXCEPT ![ph] = NoTask]
                   /\ task' = [task EXCEPT ![ph][t] = EndIteration(rec, NextPc)]
                   /\ UNCHANGED mainpc
              ELSE /\ mainpc' = "panic"
                   /\ UNCHANGED <<lock, task>>
    /\ UNCHANGED <<inputs, session, claimed, r, rxP, ryP, chan, nextIndex, wg,
                   seqIdx>>

\* A goroutine that ends without calling Done().
DoneForgotten(ph, t) ==
    /\ Running
    /\ task[ph][t].pc = "exit"
    /\ task' = [task EXCEPT ![ph][t] = [IdleTask EXCEPT !.pc = "fin"]]
    /\ UNCHANGED <<inputs, session, claimed, mainpc, r, rxP, ryP, serverHashes,
                   intersection, pairedSignatures, chan, nextIndex, wg, lock,
                   seqIdx>>

\* pairedSignaturesWG.Done() / serverWG.Done() / clientWG.Done(); the
\* goroutine ends.
Done(ph, t) ==
    /\ Running
    /\ task[ph][t].pc = "exit"
    /\ wg' = [wg EXCEPT ![ph] = wg[ph] - 1]
    /\ task' = [task EXCEPT ![ph][t] = [IdleTask EXCEPT !.pc = "fin"]]
    /\ UNCHANGED <<inputs, session, claimed, mainpc, r, rxP, ryP, serverHashes,
                   intersection, pairedSignatures, chan, nextIndex, lock,
                   seqIdx>>

\* ------------------------------------------------------------------ Spec
Next ==
    \/ SpawnOffline
    \/ SampleBlinding
    \/ StartServerPass
    \/ SeqServerStep
    \/ StartClientPass
    \/ SeqClientStep
    \/ Return
    \/ \E ph \in Phases, t \in TaskIds : ClaimOwn(ph, t)
    \/ \E ph \in Phases, t \in TaskIds : ClaimChan(ph, t)
    \/ \E ph \in Phases, t \in TaskIds : ClaimAtomic(ph, t)
    \/ \E ph \in Phases, t \in TaskIds : ClaimDivision(ph, t)
    \/ \E ph \in Phases, t \in TaskIds : Lock(ph, t)
    \/ \E ph \in Phases, t \in TaskIds : WriteUnlock(ph, t)
    \/ \E ph \in Phases, t \in TaskIds : Done(ph, t)

Spec == Init /\ [][Next]_vars

\* A second call whose fingerprint map and result slice are the first call's
\* (declared outside the function instead of inside it).
CallAgainSharedLocals ==
    /\ mainpc = "returned"
    /\ prev = NoRun
    /\ prev' = [r |-> r, result |-> BagOfSeq(intersection)]
    /\ mainpc' = "entry"
    /\ r' = NoVal /\ rxP' = NoVal /\ ryP' = NoVal
    /\ pairedSignatures' = <<>>
    /\ chan' = [ph \in Phases |-> NewChan]
    /\ nextIndex' = [ph \in Phases |-> 0]
    /\ wg' = [ph \in Phases |-> 0]
    /\ lock' = [ph \in Phases |-> NoTask]
    /\ task' = [ph \in Phases |-> [t \in TaskIds |-> IdleTask]]
    /\ seqIdx' = 0
    /\ claimed' = [ph \in Phases |-> [k \in Indices |-> 0]]
    /\ UNCHANGED <<inputs, signLog, util, serverHashes, intersection>>

\* The caller invokes the same entry point once more on the same scheme and
\* the same signed sets, as BenchmarkDualPSIInteraction calls one entry point
\* after the other: the call declares all its locals anew.
CallAgain ==
    /\ mainpc = "returned"
    /\ prev = NoRun
    /\ prev' = [r |-> r, result |-> BagOfSeq(intersection)]
    /\ mainpc' = "entry"
    /\ r' = NoVal /\ rxP' = NoVal /\ ryP' = NoVal
    /\ serverHashes' = {}
    /\ intersection' = <<>>
    /\ pairedSignatures' = <<>>
    /\ chan' = [ph \in Phases |-> NewChan]
    /\ nextIndex' = [ph \in Phases |-> 0]
    /\ wg' = [ph \in Phases |-> 0]
    /\ lock' = [ph \in Phases |-> NoTask]
    /\ task' = [ph \in Phases |-> [t \in TaskIds |-> IdleTask]]
    /\ seqIdx' = 0
    /\ claimed' = [ph \in Phases |-> [k \in Indices |-> 0]]
    /\ UNCHANGED <<inputs, signLog, util>>

NextRepeat == Next \/ CallAgain

\* Two calls in a row.
SpecRepeat == Init /\ [][NextRepeat]_vars

\* An Authorize that multiplies into the secret key it was given
\* (secretKey.MulZn(H_elt, secretKey)) rather than into a new element.
SchemeKeyOverwritten(sch, elt, party) ==
    IF party = ClientParty
    THEN [sch EXCEPT !.x = MulZn(SetFromHash(elt), sch.x)]
    ELSE [sch EXCEPT !.y = MulZn(SetFromHash(elt), sch.y)]

\* The scheme after an Authorize call: H_elt and xH_elt are new G1 elements
\* and the only ones written, so every field of the scheme is as before.
SchemeAfterAuthorize(sch, elt, party) == sch

\* A session that has set up a scheme and signs elements one by one.
AuthorizeInit ==
    /\ \E x, y \in 0..(GroupOrder - 1) : scheme = NewDualAPSIScheme(x, y)
    /\ clientSet = <<>> /\ clientSignatures = <<>>
    /\ serverSet = <<>> /\ serverSignatures = <<>>
    /\ strategy = "Interaction" /\ numThreads = 0
    /\ RunInit
    /\ SessionInit

\* scheme.Authorize(elt, party), with the call and its signature logged.
AuthorizeCall ==
    /\ Len(signLog) < MaxCalls
    /\ \E elt \in Elements, party \in {ClientParty, ServerParty} :
          /\ signLog' = Append(signLog, [elt |-> elt, party |-> party,
                                         sig |-> Authorize(scheme, elt, party)])
          /\ scheme' = SchemeAfterAuthorize(scheme, elt, party)
    /\ UNCHANGED <<clientSet, clientSignatures, serverSet, serverSignatures,
                   strategy, numThreads, mainpc, r, rxP, ryP, serverHashes,
                   intersection, pairedSignatures, chan, nextIndex, wg, lock,
                   task, seqIdx, claimed, prev, util>>

SpecAuthorize == AuthorizeInit /\ [][AuthorizeCall]_vars

\* ------------------------------------------------------- the set helpers
\* The slices a helper is given: up to MaxLen elements, repeats allowed.
Slices == UNION {[1..n -> Elements] : n \in 0..MaxLen}

\* The secret keys of the schemes the helpers are tried under.
HelperKeys == {2, 3}

\* A benchmark set-up: a scheme, two slices at hand and no helper called yet.
HelpersInit ==
    /\ \E x, y \in HelperKeys : scheme = NewDualAPSIScheme(x, y)
    /\ clientSet = <<>> /\ clientSignatures = <<>>
    /\ serverSet = <<>> /\ serverSignatures = <<>>
    /\ strategy = "Interaction" /\ numThreads = 0
    /\ RunInit
    /\ prev = NoRun
    /\ signLog = <<>>
    /\ \E x, y \in Slices : util = [NoCall EXCEPT !.x = x, !.y = y]

\* isEqual := sameRawElementSlice(x, y).
CallSameRawElementSlice ==
    /\ util.fn = "none"
    /\ util' = [util EXCEPT !.fn = "sameRawElementSlice",
                            !.ret = sameRawElementSlice(util.x, util.y)]
    /\ UNCHANGED <<inputs, locals, prev, signLog>>

\* removeDuplicateValues(x).
CallRemoveDuplicateValues ==
    /\ util.fn = "none"
    /\ util' = [util EXCEPT !.fn = "removeDuplicateValues",
                            !.ret = removeDuplicateValues(util.x)]
    /\ UNCHANGED <<inputs, locals, prev, signLog>>

\* removeDuplicateValues applied to what it has returned.
CallRemoveDuplicateValuesAgain ==
    /\ util.fn = "removeDuplicateValues"
    /\ util' = [util EXCEPT !.x = util.ret,
                            !.ret = removeDuplicateValues(util.ret)]
    /\ UNCHANGED <<inputs, locals, prev, signLog>>

\* generateRandomSet(len(x)) when rand.Read delivers the entries of x.
CallGenerateRandomSet ==
    /\ util.fn = "none"
    /\ util' = [util EXCEPT !.fn = "generateRandomSet",
                            !.ret = generateRandomSet(Len(util.x), util.x)]
    /\ UNCHANGED <<inputs, locals, prev, signLog>>

\* scheme.generateSignaturesOnSet(x, party).
CallGenerateSignaturesOnSet ==
    /\ util.fn = "none"
    /\ \E party \in {ClientParty, ServerParty} :
          util' = [util EXCEPT !.fn = "generateSignaturesOnSet",
                               !.party = party,
                               !.ret = generateSignaturesOnSet(scheme, util.x, party)]
    /\ UNCHANGED <<inputs, locals, prev, signLog>>

HelpersNext ==
    \/ CallSameRawElementSlice
    \/ CallRemoveDuplicateValues
    \/ CallRemoveDuplicateValuesAgain
    \/ CallGenerateRandomSet
    \/ CallGenerateSignaturesOnSet

SpecHelpers == HelpersInit /\ [][HelpersNext]_vars

\* The Go scheduler: while some goroutine can take a step, one does.  No
\* step of a run leads back to an earlier state, so this is all the fairness
\* a run needs to come to its end.
SpecFair == Spec /\ WF_vars(Next)


\* A call that breaks the length precondition: each signature array signs a
\* run of elements that starts where its set starts and is at most one longer
\* or shorter, and at least one of the two differs in length from its set.
MismatchInit ==
    /\ SetsInit
    /\ \E cm \in 0..MaxLen, sm \in 0..MaxLen :
          LET slo == IF serverSet = <<>> THEN 1 ELSE serverSet[1]
          IN  /\ cm - Len(clientSet) \in {0 - 1, 0, 1}
              /\ sm - Len(serverSet) \in {0 - 1, 0, 1}
              /\ cm # Len(clientSet) \/ sm # Len(serverSet)
              /\ slo + sm - 1 <= MaxLen + 1
              /\ clientSignatures =
                    generateSignaturesOnSet(scheme, IntervalSeq(1, cm), ClientParty)
              /\ serverSignatures =
                    generateSignaturesOnSet(scheme, IntervalSeq(slo, sm), ServerParty)
    /\ strategy \in Strategies
    /\ numThreads \in IF strategy \in Pooled THEN {1, 2} ELSE {0}
    /\ RunInit
    /\ SessionInit

SpecMismatch == MismatchInit /\ [][Next]_vars

\* ------------------------------------------------------------ properties
Returned == mainpc = "returned"

\* The worker count is at least one (the per-element strategies take none).
HasWorkers == strategy \in Pooled => numThreads >= 1

\* Every signature array has the length of its set.
LengthsMatch ==
    /\ Len(clientSet) = Len(clientSignatures)
    /\ Len(serverSet) = Len(serverSignatures)

PlainIntersection == Range(clientSet) \cap Range(serverSet)

NoRepeat(s) == \A i, j \in DOMAIN s : i # j => s[i] # s[j]

\* The digests of all server signatures under the blinding factor of the run.
AllServerFingerprints ==
    {Fingerprint(Pair(serverSignatures[i], MulZn(scheme.xP, r))) :
        i \in DOMAIN serverSignatures}

\* The client indices whose digest is among the server's.
HitIndices ==
    {j \in DOMAIN clientSignatures :
        Fingerprint(Pair(clientSignatures[j], MulZn(scheme.yP, r)))
            \in AllServerFingerprints}

Started(ph) == {t \in TaskIds : task[ph][t].pc # "idle"}
Live(ph) == {t \in TaskIds : task[ph][t].pc \notin {"idle", "fin"}}

\* C1: the sequential Interaction, run with a nonzero blinding factor, returns
\* exactly the client elements that are in the server set, each once.
C1_SequentialExact ==
    (strategy = "Interaction" /\ Returned /\ r # 0) =>
        /\ NoRepeat(intersection)
        /\ Range(intersection) = PlainIntersection

C1_Witness ==
    /\ strategy = "Interaction" /\ Returned /\ r # 0
    /\ Len(intersection) = 2
    /\ Len(clientSet) = 3
    /\ Range(serverSet) \ Range(clientSet) # {}

\* C2: every strategy, run with at least one worker and a nonzero blinding
\* factor, returns the multiset of the plaintext intersection.
C2_StrategiesEquivalent ==
    (Returned /\ HasWorkers /\ r # 0) =>
        BagOfSeq(intersection) =
            BagOfSeq(findInsecureIntersection(clientSet, serverSet))

\* The index of a client signature in clientSignatures.
IndexOfSignature(sig) ==
    CHOOSE j \in DOMAIN clientSignatures : clientSignatures[j] = sig

\* C3: whenever a client-pass worker appends on a hit, the element it appends
\* is clientSet[j] for the index j of the signature it holds.
C3_AppendsOwnElement ==
    [][\A t \in TaskIds :
          (task["client"][t].pc = "cs" /\ task'["client"][t].pc # "cs") =>
              intersection' =
                  Append(intersection,
                         clientSet[IndexOfSignature(task["client"][t].sig)])]_vars

\* C4: the returned sequence has exactly as many elements as the plaintext
\* intersection and repeats none.
C4_ExactCount ==
    (Returned /\ HasWorkers /\ r # 0) =>
        /\ Len(intersection) = Cardinality(PlainIntersection)
        /\ NoRepeat(intersection)

\* What a pooled strategy returns when it runs with a single worker: the
\* worker takes the client signatures in index order and appends on each hit.
SingleWorkerResult ==
    LET n == Len(clientSignatures)
        hitSeq == SelectSeq([j \in 1..n |-> j], LAMBDA j : j \in HitIndices)
    IN  [k \in 1..Len(hitSeq) |->
            IF strategy = "DivisionThreadedInteraction"
            THEN clientSet[hitSeq[k]]
            ELSE clientSet[1]]

\* C5: a pooled strategy returns the same multiset for every worker count
\* >= 1, namely the one it returns with a single worker.
C5_WorkerCountInvariant ==
    (Returned /\ strategy \in Pooled /\ numThreads >= 1) =>
        BagOfSeq(intersection) = BagOfSeq(SingleWorkerResult)

\* C6: with disjoint sets and a nonzero blinding factor nothing is ever
\* appended to the intersection, in any strategy and any interleaving.
C6_NoFalsePositives ==
    (PlainIntersection = {} /\ r # 0) => intersection = <<>>

C6_Witness ==
    /\ PlainIntersection = {} /\ r # 0
    /\ Len(clientSet) >= 2 /\ Len(serverSet) >= 2
    /\ strategy = "SmarterThreadedInteraction" /\ numThreads >= 2
    /\ Returned

\* C7: once any client-pass worker has started, every server-pass worker has
\* finished and serverHashes holds the digest of every server signature.
C7_ServerClientBarrier ==
    (Started("client") # {} /\ mainpc # "panic") =>
        /\ Live("server") = {}
        /\ Live("offline") = {}
        /\ serverHashes = AllServerFingerprints

C7_Witness ==
    /\ strategy = "DivisionThreadedInteraction"
    /\ Cardinality(Started("server")) >= 2
    /\ Cardinality(Live("client")) >= 2
    /\ Cardinality(serverHashes) >= 2

\* C8: at most one worker of a pass is inside the critical section of that
\* pass's lock, and it is the holder of the lock; serverHashes is read without
\* the lock only when no server-pass worker is left, and pairedSignatures and
\* intersection are read by the caller only when their writers are gone.
C8_MutualExclusion ==
    /\ \A ph \in Phases :
          /\ Cardinality({t \in TaskIds : task[ph][t].pc = "cs"}) <= 1
          /\ \A t \in TaskIds : task[ph][t].pc = "cs" <=> lock[ph] = t
    /\ Live("client") # {} => Live("server") = {}
    /\ (strategy = "PrecomputeThreadedInteraction"
            /\ mainpc \in {"blinded", "serverWait", "clientWait", "returned"})
          => Live("offline") = {}
    /\ Returned => Live("client") = {}

C8_Witness ==
    \E ph \in Phases : \E t, u \in TaskIds :
        /\ task[ph][t].pc = "cs"
        /\ task[ph][u].pc = "want"
        /\ ph = "client"
        /\ Len(intersection) >= 1

\* C9: a call whose signature array differs in length from its set is
\* rejected at entry: no blinding factor is sampled, no goroutine is started,
\* nothing is paired and nothing is returned.
C9_MismatchRejected ==
    ~LengthsMatch =>
        /\ mainpc = "entry"
        /\ r = NoVal
        /\ \A ph \in Phases : Started(ph) = {}
        /\ serverHashes = {}
        /\ intersection = <<>>

\* C10: with an empty client set or an empty server set (and at least one
\* worker) the intersection stays empty and no index outside an array is
\* read (no panic).
C10_EmptySetBoundary ==
    ((clientSet = <<>> \/ serverSet = <<>>) /\ HasWorkers) =>
        /\ intersection = <<>>
        /\ mainpc # "panic"

C10_Witness ==
    /\ clientSet = <<>> /\ Len(serverSet) >= 2
    /\ strategy = "AtomicsThreadedInteraction" /\ numThreads >= 2
    /\ nextIndex["client"] > numThreads - 1
    /\ Returned

\* The element a client worker contributes for a hit at client index j
\* (counted from 1).
Contribution(j) == clientSet[AppendIndex([index |-> j - 1]) + 1]

\* The client indices whose digest under ryP is in serverHashes.
FoundHits ==
    {j \in DOMAIN clientSignatures :
        Fingerprint(Pair(clientSignatures[j], ryP)) \in serverHashes}

\* C11: when a concurrent strategy has returned, no worker of any pass is
\* left, the result holds one entry for every client index that hit and the
\* contribution of each of them, and from then on the result never changes.
C11_NoPartialResult ==
    /\ []((Returned /\ strategy # "Interaction") =>
            /\ \A ph \in Phases : Live(ph) = {}
            /\ Len(intersection) >= Cardinality(FoundHits)
            /\ \A j \in FoundHits : Contribution(j) \in Range(intersection))
    /\ [][Returned => intersection' = intersection]_vars

C11_Witness ==
    /\ Returned
    /\ strategy = "AtomicsThreadedInteraction" /\ numThreads >= 2
    /\ Cardinality(HitIndices) >= 2
    /\ Cardinality(Started("server")) >= 2
    /\ Cardinality(Started("client")) >= 2

\* C12: each wait group counts exactly the goroutines of its pass that have
\* not called Done, and under fair scheduling every call with at least one
\* worker returns.
C12_Termination ==
    /\ [](\A ph \in Phases : wg[ph] = Cardinality(Live(ph)))
    /\ (HasWorkers ~> Returned)

C12_Witness ==
    /\ Returned
    /\ strategy = "SmarterThreadedInteraction" /\ numThreads = MaxThreads
    /\ Len(clientSet) = MaxLen /\ Len(serverSet) = MaxLen
    /\ \A ph \in {"server", "client"} :
          \A t \in TaskIds : t < numThreads => task[ph][t].pc = "fin"

\* A second call of the same entry point has returned.
SecondReturned == Returned /\ prev # NoRun

\* C13 as stated: two calls on the same signed sets whose blinding factors
\* differ return the same multiset, whatever the two factors are.
C13_AnyBlinding ==
    (SecondReturned /\ prev.r # r) => BagOfSeq(intersection) = prev.result

\* C13, amended: two calls on the same signed sets whose blinding factors
\* differ and are both nonzero return the same multiset.
C13_NonzeroBlinding ==
    (SecondReturned /\ prev.r # r /\ prev.r # 0 /\ r # 0) =>
        BagOfSeq(intersection) = prev.result

C13_Witness ==
    /\ SecondReturned
    /\ prev.r = 1 /\ r = 2
    /\ strategy = "PrecomputeThreadedInteraction"
    /\ Len(intersection) = 2
    /\ Len(clientSet) = 3

DivisionRange(n, N, t) == DivisionStart(n, N, t)..(DivisionEnd(n, N, t) - 1)

\* C16: once the workers of a pass of DivisionThreadedInteraction (worker
\* count >= 1) are started, the index ranges of distinct workers have no
\* index in common, and no index of the pass is taken more than once.
C16_RangesDisjoint ==
    (strategy = "DivisionThreadedInteraction" /\ numThreads >= 1) =>
        \A ph \in {"server", "client"} :
            Started(ph) # {} =>
                /\ \A t, u \in 0..(numThreads - 1) :
                      t # u =>
                        DivisionRange(Len(Signatures(ph)), numThreads, t)
                          \cap DivisionRange(Len(Signatures(ph)), numThreads, u)
                            = {}
                /\ \A k \in Indices : claimed[ph][k] <= 1

\* The workers of the pass were started and all of them have ended.
PassDone(ph) == Started(ph) # {} /\ Live(ph) = {}

\* The workers of a pass that have left their loop.
Stopped(ph) == {t \in TaskIds : task[ph][t].pc \in {"exit", "fin"}}

\* C17: in AtomicsThreadedInteraction with at least one worker no index is
\* claimed twice, the claimed indices are those below the counter, a worker
\* holds a signature only for an index below n, the claims of an index >= n
\* are as many as the workers that have stopped (each stopped at its first
\* one), no array is read outside its bounds, and when the pass is over every
\* index below n has been claimed.
C17_AtomicDispatch ==
    (strategy = "AtomicsThreadedInteraction" /\ numThreads >= 1) =>
        /\ mainpc # "panic"
        /\ \A ph \in {"server", "client"} :
              LET n == Len(Signatures(ph))
              IN  /\ \A k \in Indices :
                        claimed[ph][k] = IF k < nextIndex[ph] THEN 1 ELSE 0
                  /\ \A t \in TaskIds :
                        task[ph][t].index # NoVal => task[ph][t].index < n
                  /\ Cardinality({k \in Indices : k >= n /\ claimed[ph][k] > 0})
                        = Cardinality(Stopped(ph))
                  /\ PassDone(ph) =>
                        /\ \A k \in 0..(n - 1) : claimed[ph][k] = 1
                        /\ nextIndex[ph] = n + numThreads

C17_Witness ==
    /\ strategy = "AtomicsThreadedInteraction" /\ numThreads = 3
    /\ Len(clientSignatures) = 3
    /\ PassDone("client")
    /\ nextIndex["client"] = 6
    /\ Len(intersection) = 2

\* C18: in SmarterThreadedInteraction with at least one worker, once the
\* workers of a pass exist its channel is closed and holds, in order, exactly
\* the signatures not yet received; every signature before them was received
\* once; two workers never hold the same signature; a worker leaves its loop
\* only when the channel is drained; and under fair scheduling all workers
\* of both passes leave.
C18_QueueHandsOffOnce ==
    /\ []((strategy = "SmarterThreadedInteraction" /\ numThreads >= 1) =>
            \A ph \in {"server", "client"} :
                Started(ph) # {} =>
                    LET n == Len(Signatures(ph))
                        taken == n - Len(chan[ph].buf)
                    IN  /\ chan[ph].closed
                        /\ chan[ph].buf = SubSeq(Signatures(ph), taken + 1, n)
                        /\ \A k \in Indices :
                              claimed[ph][k] = IF k < taken THEN 1 ELSE 0
                        /\ \A t, u \in TaskIds :
                              (t # u /\ task[ph][t].sig # NoVal)
                                  => task[ph][t].sig # task[ph][u].sig
                        /\ Stopped(ph) # {} => chan[ph].buf = <<>>)
    /\ ((strategy = "SmarterThreadedInteraction" /\ numThreads >= 1)
           ~> (PassDone("server") /\ PassDone("client")))

C18_Witness ==
    /\ strategy = "SmarterThreadedInteraction" /\ numThreads = 2
    /\ Len(clientSignatures) = 3
    /\ Len(chan["client"].buf) = 1
    /\ \A t \in {0, 1} : task["client"][t].sig # NoVal
    /\ Len(intersection) = 0

\* Once sampled, the blinding factor and the blinded points never change.
BlindingFrozen ==
    r # NoVal => (r' = r /\ rxP' = rxP /\ ryP' = ryP)

\* C19 as stated: whenever a worker of any kind has been started, r, rxP and
\* ryP have all been computed, and once computed they never change.
C19_BlindedBeforeAnyWorker ==
    /\ []((\E ph \in Phases : Started(ph) # {}) =>
            (r # NoVal /\ rxP # NoVal /\ ryP # NoVal))
    /\ [][BlindingFrozen]_vars

\* C19, amended: whenever a server-pass or client-pass worker has been
\* started (or the sequential loops run), r has been sampled, ryP = r*yP and,
\* except in the precompute variant, which derives no rxP, rxP = r*xP; the
\* offline workers of the precompute variant run only before r is sampled;
\* and once sampled, r, rxP and ryP never change.
C19_BlindedBeforePassWorkers ==
    /\ []((Started("server") # {} \/ Started("client") # {}
              \/ mainpc \in {"seqServer", "seqClient"}) =>
            /\ r \in 0..MaxR
            /\ ryP = MulZn(scheme.yP, r)
            /\ rxP = IF strategy = "PrecomputeThreadedInteraction"
                     THEN NoVal ELSE MulZn(scheme.xP, r))
    /\ [](Live("offline") # {} => r = NoVal)
    /\ [][BlindingFrozen]_vars

C19_Witness ==
    /\ strategy = "AtomicsThreadedInteraction"
    /\ r = 2 /\ rxP = MulZn(scheme.xP, 2) /\ ryP = MulZn(scheme.yP, 2)
    /\ Cardinality(Live("client")) >= 2
    /\ Cardinality(serverHashes) >= 2
    /\ Len(intersection) >= 1

\* The caller is between the start of the client pass and its return.
InClientPass == mainpc \in {"seqClient", "clientWait"}

\* C20: no step taken between the start of the client pass and the return
\* of the call changes serverHashes.
C20_FingerprintSetFrozen ==
    [][InClientPass => serverHashes' = serverHashes]_vars

C20_Witness ==
    /\ InClientPass
    /\ strategy = "DivisionThreadedInteraction" /\ numThreads >= 2
    /\ Cardinality(serverHashes) >= 2
    /\ \E t \in TaskIds : task["client"][t].pc = "cs"
    /\ Len(intersection) >= 1

\* The pairings e(sig_i, xP) of all server signatures, in index order.
AllPairedSignatures ==
    [i \in DOMAIN serverSignatures |-> Pair(serverSignatures[i], scheme.xP)]

\* C21: in PrecomputeThreadedInteraction the offline workers run only while
\* r is not yet sampled; once the caller is past their wait group,
\* pairedSignatures holds e(sig_i, xP) for every server signature, in some
\* order; and once the server pass is over, serverHashes is the set the
\* sequential server pass builds for the same r.
C21_PrecomputeSameSet ==
    strategy = "PrecomputeThreadedInteraction" =>
        /\ Live("offline") # {} => r = NoVal
        /\ mainpc \notin {"entry", "offlineWait"} =>
              /\ Live("offline") = {}
              /\ BagOfSeq(pairedSignatures) = BagOfSeq(AllPairedSignatures)
        /\ mainpc \in {"clientWait", "returned"} =>
              serverHashes = AllServerFingerprints

C21_Witness ==
    /\ strategy = "PrecomputeThreadedInteraction"
    /\ mainpc = "clientWait"
    /\ Len(pairedSignatures) = 3
    /\ pairedSignatures[1] = AllPairedSignatures[3]
    /\ pairedSignatures[1] # AllPairedSignatures[1]
    /\ r = 2
    /\ Cardinality(serverHashes) = 3

\* The tasks of a pass that have called Done.
Finished(ph) == {t \in TaskIds : task[ph][t].pc = "fin"}

\* C22: in ThreadedInteraction, once a pass is started it has exactly one
\* task per signature of the pass; a task holds no signature but the one it
\* was started with (and, in the client pass, no index but that
\* signature's); each signature is taken once, by its task; and the wait
\* group has been decremented once for every task that has ended.
C22_OneTaskPerElement ==
    strategy = "ThreadedInteraction" =>
        \A ph \in {"server", "client"} :
            LET n == Len(Signatures(ph))
                passStarted == IF ph = "server"
                               THEN mainpc \in {"serverWait", "clientWait", "returned"}
                               ELSE mainpc \in {"clientWait", "returned"}
            IN  /\ Started(ph) = IF passStarted THEN {t \in TaskIds : t < n} ELSE {}
                /\ \A t \in TaskIds :
                      LET rec == task[ph][t]
                      IN  /\ rec.sig # NoVal => rec.sig = Signatures(ph)[t + 1]
                          /\ rec.index # NoVal => (ph = "client" /\ rec.index = t)
                          /\ claimed[ph][t] =
                                IF rec.pc \in {"idle", "run"} THEN 0 ELSE 1
                /\ passStarted => wg[ph] + Cardinality(Finished(ph)) = n
                /\ wg[ph] >= 0

C22_Witness ==
    /\ strategy = "ThreadedInteraction"
    /\ mainpc = "clientWait"
    /\ Len(serverSignatures) = 3 /\ Len(clientSignatures) = 3
    /\ Cardinality(Finished("server")) = 3
    /\ task["client"][2].pc = "fin"
    /\ task["client"][1].pc = "cs"
    /\ task["client"][0].pc = "run"

\* C26: in DivisionThreadedInteraction with at least one worker every range
\* lies within [0, n] and every index below n lies in some worker's range;
\* no array is read outside its bounds; when a pass is over every index
\* below n has been taken; and after the server pass serverHashes holds the
\* digest of every server signature.
C26_DivisionCovers ==
    (strategy = "DivisionThreadedInteraction" /\ numThreads >= 1) =>
        /\ mainpc # "panic"
        /\ \A ph \in {"server", "client"} :
              LET n == Len(Signatures(ph))
              IN  /\ \A t \in 0..(numThreads - 1) :
                        /\ 0 <= DivisionStart(n, numThreads, t)
                        /\ DivisionEnd(n, numThreads, t) <= n
                  /\ \A k \in 0..(n - 1) :
                        \E t \in 0..(numThreads - 1) :
                            k \in DivisionRange(n, numThreads, t)
                  /\ PassDone(ph) => \A k \in 0..(n - 1) : claimed[ph][k] >= 1
        /\ PassDone("server") => serverHashes = AllServerFingerprints

C26_Witness ==
    /\ strategy = "DivisionThreadedInteraction" /\ numThreads = 2
    /\ Len(serverSignatures) = 3 /\ Len(clientSignatures) = 3
    /\ PassDone("server") /\ PassDone("client")
    /\ \A k \in 0..2 : claimed["client"][k] = 1
    /\ Len(intersection) = 2

\* C27: a pooled strategy called with numThreads = 0 never starts a worker,
\* never panics, keeps its result empty, and under fair scheduling returns.
C27_ZeroWorkers ==
    /\ []((strategy \in Pooled /\ numThreads = 0) =>
            /\ \A ph \in Phases : Started(ph) = {}
            /\ intersection = <<>>
            /\ serverHashes = {}
            /\ mainpc # "panic")
    /\ ((strategy \in Pooled /\ numThreads = 0) ~> Returned)

C27_Witness ==
    /\ strategy = "SmarterThreadedInteraction" /\ numThreads = 0
    /\ Returned
    /\ Len(clientSet) = 3 /\ Len(serverSet) = 3
    /\ Cardinality(PlainIntersection) = 3
    /\ Len(chan["client"].buf) = 3

\* The worker of pass ph that is inside the critical section, if any.
Writer(ph) == {t \in TaskIds : task[ph][t].pc = "cs"}

\* A concurrent insertion into serverHashes inserts the digest derived from
\* the signature of the worker inside the critical section.
WritesOwnDigest ==
    (serverHashes' # serverHashes /\ strategy # "Interaction") =>
        \E t \in Writer("server") :
            serverHashes' = serverHashes \cup
                {Fingerprint(Derive("server", task["server"][t].sig))}

\* An append to pairedSignatures appends the pairing of the signature of the
\* worker inside the critical section.
WritesOwnPairing ==
    pairedSignatures' # pairedSignatures =>
        \E t \in Writer("offline") :
            pairedSignatures' = Append(pairedSignatures,
                Pair(task["offline"][t].sig, scheme.xP))

\* C28: what a worker's scratch element holds is the pairing (or power) of
\* the signature that worker holds, its digest is the digest of that value,
\* and what a worker writes under the lock (the paired signature, the digest
\* inserted) is derived from its own signature.
C28_PrivateScratch ==
    /\ [](\A ph \in Phases : \A t \in TaskIds :
            LET rec == task[ph][t]
            IN  /\ rec.e_sig # NoVal =>
                      (rec.sig # NoVal /\ rec.e_sig = Derive(ph, rec.sig))
                /\ rec.hashed # NoVal =>
                      (rec.sig # NoVal
                          /\ rec.hashed = Fingerprint(Derive(ph, rec.sig))))
    /\ [][WritesOwnDigest /\ WritesOwnPairing]_vars

C28_Witness ==
    /\ strategy = "SmarterThreadedInteraction"
    /\ \E t, u \in TaskIds :
          /\ task["server"][t].pc = "cs"
          /\ task["server"][u].pc = "want"
          /\ task["server"][t].e_sig # task["server"][u].e_sig
    /\ Cardinality(serverHashes) = 1

\* The client elements of the hits among the first k client indices, in
\* increasing index order.
RECURSIVE SeqHits(_)
SeqHits(k) ==
    IF k = 0 THEN <<>>
    ELSE IF k \in FoundHits /\ k \in DOMAIN clientSet
         THEN Append(SeqHits(k - 1), clientSet[k])
         ELSE SeqHits(k - 1)

\* s is t with entries left out: some strictly increasing choice of
\* positions of t spells s.
IsSubSeq(s, t) ==
    \E f \in [DOMAIN s -> DOMAIN t] :
        /\ \A i, j \in DOMAIN s : i < j => f[i] < f[j]
        /\ \A i \in DOMAIN s : s[i] = t[f[i]]

\* C29: in the sequential Interaction, during and after the client loop, the
\* result is the matching client elements of the indices visited so far in
\* increasing client index, hence a subsequence of clientSet.
C29_SequentialOrder ==
    (strategy = "Interaction" /\ mainpc \in {"seqClient", "returned"}) =>
        /\ intersection = SeqHits(seqIdx)
        /\ IsSubSeq(intersection, clientSet)

\* The sequential Interaction has returned two different matches.
C29_Witness ==
    /\ strategy = "Interaction"
    /\ Returned
    /\ Len(intersection) >= 2
    /\ intersection[1] # intersection[2]

\* A concurrent strategy has returned the right multiset in another order
\* than the client's.
C29_ConcurrentOutOfOrder ==
    /\ strategy = "ThreadedInteraction"
    /\ Returned
    /\ BagOfSeq(intersection) = BagOfSeq(SeqHits(Len(clientSignatures)))
    /\ ~IsSubSeq(intersection, clientSet)

\* The first position of e in s.
FirstPos(s, e) == CHOOSE i \in DOMAIN s : s[i] = e /\ \A j \in 1..(i - 1) : s[j] # e

\* d is s without its repeats: no element twice, exactly the elements of s,
\* in the order of their first occurrences in s.
IsDedupOf(d, s) ==
    /\ NoRepeat(d)
    /\ Range(d) = Range(s)
    /\ \A a, b \in DOMAIN d : a < b => FirstPos(s, d[a]) < FirstPos(s, d[b])

\* C23: sameRawElementSlice(x, y) is true exactly when every element occurs
\* equally often in x and in y, and it gives the same answer for (y, x).
C23_MultisetEquality ==
    util.fn = "sameRawElementSlice" =>
        /\ util.ret = (BagOfSeq(util.x) = BagOfSeq(util.y))
        /\ util.ret = sameRawElementSlice(util.y, util.x)

\* Two slices with a repeated element, the same multiset in another order,
\* were found equal.
C23_Witness ==
    /\ util.fn = "sameRawElementSlice"
    /\ util.ret = TRUE
    /\ util.x # util.y
    /\ ~NoRepeat(util.x)

\* Two slices of one length and the same elements with different counts were
\* found different.
C23_WitnessUnequal ==
    /\ util.fn = "sameRawElementSlice"
    /\ util.ret = FALSE
    /\ Len(util.x) = Len(util.y)
    /\ Range(util.x) = Range(util.y)

\* C24: removeDuplicateValues returns its input without the repeats, each
\* distinct element at the place of its first occurrence; applied to its own
\* result it returns that result; generateRandomSet returns a repeat-free
\* slice of at most the requested size.
C24_Deduplicated ==
    /\ util.fn = "removeDuplicateValues" =>
          /\ IsDedupOf(util.ret, util.x)
          /\ removeDuplicateValues(util.ret) = util.ret
    /\ util.fn = "generateRandomSet" =>
          /\ NoRepeat(util.ret)
          /\ Len(util.ret) <= Len(util.x)
          /\ IsDedupOf(util.ret, util.x)

\* A slice with a repeat between two different elements was deduplicated.
C24_Witness ==
    /\ util.fn = "removeDuplicateValues"
    /\ Len(util.x) = MaxLen
    /\ util.x[1] = util.x[MaxLen]
    /\ Len(util.ret) = 2

\* generateRandomSet drew a repeat and returned fewer elements than asked.
C24_WitnessRandom ==
    /\ util.fn = "generateRandomSet"
    /\ 0 < Len(util.ret)
    /\ Len(util.ret) < Len(util.x)

\* C25: generateSignaturesOnSet returns as many signatures as it was given
\* elements, and the i-th is Authorize of the i-th element for the party.
C25_IndexAligned ==
    util.fn = "generateSignaturesOnSet" =>
        /\ Len(util.ret) = Len(util.x)
        /\ \A i \in DOMAIN util.x :
              util.ret[i] = Authorize(scheme, util.x[i], util.party)

\* A slice of different elements was signed for the server under a scheme
\* whose two keys differ.
C25_Witness ==
    /\ util.fn = "generateSignaturesOnSet"
    /\ util.party = ServerParty
    /\ scheme.x # scheme.y
    /\ Len(util.x) = MaxLen
    /\ NoRepeat(util.x)
    /\ NoRepeat(util.ret)

====
